---- MODULE Spec2Model ----
(***************************************************************************)
(* Model of src/app/page.tsx: the CSV decoder parseCSV (a character        *)
(* scanner followed by a row-to-Record projection), the page's load()      *)
(* effect and the date/text filter of the `filtered` memo.                 *)
(*                                                                         *)
(* A string is a sequence of one-character strings; the empty string is    *)
(* <<>>.  A Record is a function from keys (strings) to values (strings).  *)
(***************************************************************************)
EXTENDS Integers, Sequences, FiniteSets, TLC

\* ------------------------------------------------------------------ bounds

\* Longest CSV text the scanner is run on.
MaxLen == 5

\* Most Records in the data set the filter runs on.
MaxRows == 2

\* Calendar days a date bound is drawn from: 1..MaxDay, counted from the epoch.
MaxDay == 2

\* ---------------------------------------------------------------- alphabet

QUOTE == "\""
COMMA == ","
LF == "\n"
CR == "\r"
SP == " "

\* The characters a CSV text is drawn from: two letters, a blank and the four
\* characters the scanner treats specially.
Chars == {"a", "b", SP, COMMA, QUOTE, LF, CR}

\* csvText[i + 1] past the end of the string, and a missing key of a row.
Undefined == "undefined"

RECURSIVE SeqsUpTo(_, _)
SeqsUpTo(S, n) ==
    IF n = 0 THEN {<<>>}
    ELSE LET shorter == SeqsUpTo(S, n - 1)
         IN  shorter \cup {Append(s, c) : s \in {t \in shorter : Len(t) = n - 1}, c \in S}

Texts == SeqsUpTo(Chars, MaxLen)

\* ------------------------------------------------------------------- state

VARIABLES
    csvText,    \* parseCSV: the argument
    i,          \* parseCSV: the loop index, 1-based here (i = 0 in the source is 1)
    rows,       \* parseCSV: rows
    row,        \* parseCSV: row
    cell,       \* parseCSV: cell
    inQuotes,   \* parseCSV: inQuotes
    pc,         \* where parseCSV is: "scan" (in the loop) or "done" (returned)
    result,     \* parseCSV: the returned Records
    last,       \* history: the branch of the loop body taken by the last step
    atQuote,    \* history: i, cell, row and rows when the last quote was opened
    data,       \* Page: data
    loading,    \* Page: loading
    error,      \* Page: error
    loadPc,     \* where load() is: "mounted", "fetching", "reading", "failed", "loaded"
    dataBefore, \* history: data when load() started
    startDate,  \* Page: startDate
    endDate,    \* Page: endDate
    query,      \* Page: query
    filtered,   \* Page: filtered, the memo over data, startDate, endDate and query
    tz          \* the browser's time zone: minutes that local time is ahead of UTC

csvVars == <<csvText, i, rows, row, cell, inQuotes, pc, result, last, atQuote>>

loadVars == <<data, loading, error, loadPc, dataBefore>>

filterVars == <<startDate, endDate, query, filtered, tz>>

vars == <<csvVars, loadVars, filterVars>>

\* ------------------------------------------------------- parseCSV: scanner

\* The scanner's local variables as one value.
St == [i |-> i, rows |-> rows, row |-> row, cell |-> cell, inQuotes |-> inQuotes]

ScanInit == [i |-> 1, rows |-> <<>>, row |-> <<>>, cell |-> <<>>, inQuotes |-> FALSE]

CharAt(text, k) == IF k >= 1 /\ k <= Len(text) THEN text[k] ELSE Undefined

\* Which branch of the loop body runs at st.i.
Branch(st, text) ==
    LET char == CharAt(text, st.i)
        next == CharAt(text, st.i + 1)
    IN  IF st.inQuotes
        THEN IF char = QUOTE /\ next = QUOTE THEN "escapedQuote"
             ELSE IF char = QUOTE THEN "closeQuote"
             ELSE "quotedChar"
        ELSE IF char = QUOTE THEN "openQuote"
             ELSE IF char = COMMA THEN "comma"
             ELSE IF char = LF THEN "newline"
             ELSE IF char = CR THEN "carriageReturn"
             ELSE "plainChar"

\* cell += '"'; i++
EscapedQuote(st) == [st EXCEPT !.cell = Append(@, QUOTE), !.i = @ + 1]

\* inQuotes = false
CloseQuote(st) == [st EXCEPT !.inQuotes = FALSE]

\* Mutant of QuotedChar: a comma inside quotes ends the cell.
QuotedCharCommaSplits(st, char) ==
    IF char = COMMA
    THEN [st EXCEPT !.row = Append(@, st.cell), !.cell = <<>>]
    ELSE [st EXCEPT !.cell = Append(@, char)]

\* cell += char (inside quotes)
QuotedChar(st, char) == [st EXCEPT !.cell = Append(@, char)]

\* inQuotes = true
OpenQuote(st) == [st EXCEPT !.inQuotes = TRUE]

\* row.push(cell); cell = ""
EndCell(st) == [st EXCEPT !.row = Append(@, st.cell), !.cell = <<>>]

\* row.push(cell); rows.push(row); row = []; cell = ""
EndRow(st) ==
    [st EXCEPT !.rows = Append(@, Append(st.row, st.cell)), !.row = <<>>, !.cell = <<>>]

\* Mutant of IgnoreCR: the carriage return is kept as content of the cell.
KeepCR(st) == [st EXCEPT !.cell = Append(@, CR)]

\* // ignore CR
IgnoreCR(st) == st

\* cell += char (outside quotes)
PlainChar(st, char) == [st EXCEPT !.cell = Append(@, char)]

\* One iteration of the for loop, the i++ of the loop header included.
ScanChar(st, text) ==
    LET char == CharAt(text, st.i)
        b == Branch(st, text)
        body == CASE b = "escapedQuote" -> EscapedQuote(st)
                  [] b = "closeQuote" -> CloseQuote(st)
                  [] b = "quotedChar" -> QuotedChar(st, char)
                  [] b = "openQuote" -> OpenQuote(st)
                  [] b = "comma" -> EndCell(st)
                  [] b = "newline" -> EndRow(st)
                  [] b = "carriageReturn" -> IgnoreCR(st)
                  [] OTHER -> PlainChar(st, char)
    IN  [body EXCEPT !.i = @ + 1]

\* Mutant of FlushLast: a row is complete only at a line feed.
NoFlushLast(st) == st

\* Mutant of FlushLast: a field whose quote is still open at the end is rejected.
FlushLastUnlessInQuotes(st) ==
    IF ~st.inQuotes /\ (Len(st.cell) > 0 \/ Len(st.row) > 0)
    THEN [st EXCEPT !.rows = Append(@, Append(st.row, st.cell)), !.row = Append(@, st.cell)]
    ELSE st

\* push last cell/row
FlushLast(st) ==
    IF Len(st.cell) > 0 \/ Len(st.row) > 0
    THEN [st EXCEPT !.rows = Append(@, Append(st.row, st.cell)), !.row = Append(@, st.cell)]
    ELSE st

RECURSIVE ScanFrom(_, _)
ScanFrom(st, text) ==
    IF st.i > Len(text) THEN st ELSE ScanFrom(ScanChar(st, text), text)

\* The scanner's state when the loop ends, and the rows it leaves.
ScanEnd(text) == ScanFrom(ScanInit, text)

Scan(text) == FlushLast(ScanEnd(text)).rows

\* ---------------------------------------------------- parseCSV: projection

\* String.prototype.trim strips white space and line terminators from both ends.
IsSpace(c) == c \in {SP, LF, CR}

RECURSIVE TrimStart(_)
TrimStart(s) ==
    IF Len(s) > 0 /\ IsSpace(s[1]) THEN TrimStart(Tail(s)) ELSE s

RECURSIVE TrimEnd(_)
TrimEnd(s) ==
    IF Len(s) > 0 /\ IsSpace(s[Len(s)]) THEN TrimEnd(SubSeq(s, 1, Len(s) - 1)) ELSE s

Trim(s) == TrimEnd(TrimStart(s))

\* Mutant of KeepRow: only the r.length > 0 half of the test.
KeepRowWithCells(r) == Len(r) > 0

\* Mutant of KeepRow: a row is blank when its first cell is empty.
KeepRowByFirstCell(r) == Len(r) > 0 /\ r[1] # <<>>

\* r.length > 0 && r.some((v) => v !== "")
KeepRow(r) == Len(r) > 0 /\ \E k \in 1..Len(r) : r[k] # <<>>

\* cols[idx] ?? ""
CellOrEmpty(cols, idx) == IF idx <= Len(cols) THEN cols[idx] ELSE <<>>

EmptyObj == [k \in {} |-> <<>>]

\* Mutant of SetKey: a header beyond the row's cells gets no key.
SetKeyIfCell(obj, h, cols, idx) ==
    IF idx <= Len(cols)
    THEN [k \in (DOMAIN obj) \cup {Trim(h)} |-> IF k = Trim(h) THEN Trim(cols[idx]) ELSE obj[k]]
    ELSE obj

\* obj[h.trim()] = (cols[idx] ?? "").trim()
SetKey(obj, h, cols, idx) ==
    LET key == Trim(h)
        val == Trim(CellOrEmpty(cols, idx))
    IN  [k \in (DOMAIN obj) \cup {key} |-> IF k = key THEN val ELSE obj[k]]

\* headers.forEach((h, idx) => ...), from index idx on.
RECURSIVE ForEachHeader(_, _, _, _)
ForEachHeader(obj, headers, cols, idx) ==
    IF idx > Len(headers) THEN obj
    ELSE ForEachHeader(SetKey(obj, headers[idx], cols, idx), headers, cols, idx + 1)

MakeRecord(headers, cols) == ForEachHeader(EmptyObj, headers, cols, 1)

\* if (rows.length === 0) return []; ... rows.slice(1).filter(...).map(...)
Project(rws) ==
    IF Len(rws) = 0 THEN <<>>
    ELSE LET headers == rws[1]
             kept == SelectSeq(Tail(rws), KeepRow)
         IN  [n \in 1..Len(kept) |-> MakeRecord(headers, kept[n])]

parseCSV(text) == Project(Scan(text))

\* ------------------------------------------------------ parseCSV: actions

NoQuote == [i |-> 0, cell |-> <<>>, row |-> <<>>, rows |-> <<>>]

\* null
Null == "null"

\* A date string: kind "undefined" (the key is missing), "empty" (""), "text"
\* (no date), "date" (YYYY-MM-DD) or "local" (YYYY-MM-DDTHH:mm:ss, no offset);
\* day counts days from the epoch and ms the milliseconds into the day.
DateStr(kind, day, ms) == [kind |-> kind, day |-> day, ms |-> ms]

NoDate == DateStr("empty", 0, 0)

\* The scanner before its first step.
ScannerIdle ==
    /\ i = ScanInit.i
    /\ rows = ScanInit.rows
    /\ row = ScanInit.row
    /\ cell = ScanInit.cell
    /\ inQuotes = ScanInit.inQuotes
    /\ pc = "scan"
    /\ result = <<>>
    /\ last = "init"
    /\ atQuote = NoQuote

\* The useState initial values of Page; load() has not started.
PageMounted ==
    /\ data = <<>>
    /\ loading = TRUE
    /\ error = Null
    /\ loadPc = "mounted"
    /\ dataBefore = <<>>
    /\ startDate = NoDate
    /\ endDate = NoDate
    /\ query = <<>>
    /\ filtered = <<>>
    /\ tz = 0

InitCSV ==
    /\ csvText \in Texts
    /\ ScannerIdle
    /\ PageMounted

\* One loop iteration: the scanner's variables after ScanChar, and the history.
Apply(b) ==
    /\ LET st == ScanChar(St, csvText)
       IN  /\ i' = st.i
           /\ rows' = st.rows
           /\ row' = st.row
           /\ cell' = st.cell
           /\ inQuotes' = st.inQuotes
    /\ last' = b
    /\ atQuote' = IF b = "openQuote"
                  THEN [i |-> i, cell |-> cell, row |-> row, rows |-> rows]
                  ELSE atQuote
    /\ UNCHANGED <<csvText, pc, result, loadVars, filterVars>>

InLoop == pc = "scan" /\ i <= Len(csvText)

StepEscapedQuote ==
    /\ InLoop
    /\ Branch(St, csvText) = "escapedQuote"
    /\ Apply("escapedQuote")

StepCloseQuote ==
    /\ InLoop
    /\ Branch(St, csvText) = "closeQuote"
    /\ Apply("closeQuote")

StepQuotedChar ==
    /\ InLoop
    /\ Branch(St, csvText) = "quotedChar"
    /\ Apply("quotedChar")

StepOpenQuote ==
    /\ InLoop
    /\ Branch(St, csvText) = "openQuote"
    /\ Apply("openQuote")

StepComma ==
    /\ InLoop
    /\ Branch(St, csvText) = "comma"
    /\ Apply("comma")

StepNewline ==
    /\ InLoop
    /\ Branch(St, csvText) = "newline"
    /\ Apply("newline")

StepCarriageReturn ==
    /\ InLoop
    /\ Branch(St, csvText) = "carriageReturn"
    /\ Apply("carriageReturn")

StepPlainChar ==
    /\ InLoop
    /\ Branch(St, csvText) = "plainChar"
    /\ Apply("plainChar")

\* The loop has ended: flush the last row, project the rows and return.
Finish ==
    /\ pc = "scan"
    /\ i > Len(csvText)
    /\ LET st == FlushLast(St)
       IN  /\ rows' = st.rows
           /\ row' = st.row
           /\ result' = Project(st.rows)
    /\ pc' = "done"
    /\ last' = "finish"
    /\ UNCHANGED <<csvText, i, cell, inQuotes, atQuote, loadVars, filterVars>>

NextCSV ==
    \/ StepEscapedQuote
    \/ StepCloseQuote
    \/ StepQuotedChar
    \/ StepOpenQuote
    \/ StepComma
    \/ StepNewline
    \/ StepCarriageReturn
    \/ StepPlainChar
    \/ Finish

Spec == InitCSV /\ [][NextCSV]_vars

\* The stepwise scanner and the function parseCSV agree.
StepwiseIsParseCSV == pc = "done" => result = parseCSV(csvText)


\* ------------------------------------------------------- parseCSV: claims

Done == pc = "done"

\* The header row of the finished scan, and the rows after it that have a cell
\* which is not the empty string (before any trimming), in order.
Headers == rows[1]

HasRawContent(r) == \E k \in 1..Len(r) : r[k] # <<>>

DataRows == IF Len(rows) = 0 THEN <<>> ELSE SelectSeq(Tail(rows), HasRawContent)

TrimmedHeaders == {Trim(Headers[k]) : k \in 1..Len(Headers)}

\* Header position k is the last one with its key.
LastOfKey(k) == \A j \in (k + 1)..Len(Headers) : Trim(Headers[j]) # Trim(Headers[k])

\* C1 as claimed: every Record has as many keys as the header row has cells, and
\* a header beyond the row's cells is a key mapped to the empty string.
C1_KeysEqualHeaderCells ==
    Done =>
        \A n \in 1..Len(result) :
            /\ Cardinality(DOMAIN result[n]) = Len(Headers)
            /\ \A k \in 1..Len(Headers) :
                   k > Len(DataRows[n]) =>
                       /\ Trim(Headers[k]) \in DOMAIN result[n]
                       /\ result[n][Trim(Headers[k])] = <<>>

\* C1 as amended: the keys of every Record are exactly the trimmed header strings,
\* so their number is the number of distinct trimmed headers; each key maps to the
\* trimmed cell under the last header with that key, and to the empty string when
\* the row has no cell there: a header beyond the row's cells is never an absent key.
C1_KeysAreTrimmedHeaders ==
    Done =>
        /\ Len(result) = Len(DataRows)
        /\ \A n \in 1..Len(result) :
               /\ DOMAIN result[n] = TrimmedHeaders
               /\ Cardinality(DOMAIN result[n]) = Cardinality(TrimmedHeaders)
               /\ \A k \in 1..Len(Headers) :
                      LastOfKey(k) =>
                          result[n][Trim(Headers[k])] =
                              IF k <= Len(DataRows[n]) THEN Trim(DataRows[n][k]) ELSE <<>>

\* A ragged row under two distinct headers: the second header is a key mapped to "".
C1_Witness ==
    /\ Done
    /\ Len(result) = 1
    /\ Len(Headers) = 2
    /\ Len(DataRows[1]) = 1
    /\ Cardinality(DOMAIN result[1]) = 2
    /\ result[1][Trim(Headers[1])] # <<>>
    /\ result[1][Trim(Headers[2])] = <<>>

\* The scanner is inside quotes at position k: an odd number of quotes precede it.
Quoted(text, k) == Cardinality({j \in 1..(k - 1) : text[j] = QUOTE}) % 2 = 1

\* The text with each line-ending line feed (one outside quotes) written CR LF.
RECURSIVE WithCRLFFrom(_, _)
WithCRLFFrom(text, k) ==
    IF k > Len(text) THEN <<>>
    ELSE (IF text[k] = LF /\ ~Quoted(text, k) THEN <<CR, LF>> ELSE <<text[k]>>)
             \o WithCRLFFrom(text, k + 1)

WithCRLF(text) == WithCRLFFrom(text, 1)

\* C3: the text with its line endings written CR LF decodes to the same Records.
C3_CRLFDecodesAsLF == Done => parseCSV(WithCRLF(csvText)) = result

\* A text with a line ending and a Record.
C3_Witness ==
    /\ Done
    /\ WithCRLF(csvText) # csvText
    /\ Len(result) >= 1

\* Each doubled quote replaced by one quote.
RECURSIVE Unescape(_)
Unescape(s) ==
    IF Len(s) = 0 THEN <<>>
    ELSE IF Len(s) >= 2 /\ s[1] = QUOTE /\ s[2] = QUOTE
         THEN <<QUOTE>> \o Unescape(SubSeq(s, 3, Len(s)))
         ELSE <<s[1]>> \o Unescape(Tail(s))

\* C4: from the opening quote on, the cell grows by the text after that quote
\* with each doubled quote read as one, and neither the row nor the rows change:
\* nothing inside the quotes ends the cell or the row; when the quote closes, the
\* cell is the text between the two quotes, unescaped.
C4_QuotedFieldIsOneCell ==
    /\ (pc = "scan" /\ inQuotes) =>
           /\ cell = atQuote.cell \o Unescape(SubSeq(csvText, atQuote.i + 1, i - 1))
           /\ row = atQuote.row
           /\ rows = atQuote.rows
    /\ last = "closeQuote" =>
           /\ cell = atQuote.cell \o Unescape(SubSeq(csvText, atQuote.i + 1, i - 2))
           /\ row = atQuote.row
           /\ rows = atQuote.rows

\* A quoted field that started a cell has just closed, with a comma and a doubled
\* quote between its quotes.
C4_Witness ==
    /\ last = "closeQuote"
    /\ atQuote.cell = <<>>
    /\ \E k \in 1..Len(cell) : cell[k] = COMMA
    /\ \E k \in 1..Len(cell) : cell[k] = QUOTE

EndsWithLF == Len(csvText) > 0 /\ csvText[Len(csvText)] = LF

\* C5 as claimed: a text that does not end in a line feed decodes as the text
\* followed by one line feed.
C5_LFAppendedDecodesTheSame ==
    (Done /\ ~EndsWithLF) => result = parseCSV(csvText \o <<LF>>)

\* C5 as amended: the same, for a text whose scan ends outside quotes.
C5_LFAppendedOutsideQuotes ==
    (Done /\ ~EndsWithLF /\ ~inQuotes) => result = parseCSV(csvText \o <<LF>>)

\* A data row ended by the end of the text, outside quotes, became a Record.
C5_Witness ==
    /\ Done
    /\ ~EndsWithLF
    /\ ~inQuotes
    /\ Len(rows) = 2
    /\ cell # <<>>
    /\ Len(result) = 1

\* C6: the Records are as many as the rows after the header that have a non-empty
\* cell, so a row of empty cells yields none, wherever it is; a text with no row
\* after the header, the empty text included, decodes to the empty sequence.
C6_BlankRowsDropped ==
    Done =>
        /\ Len(result) = Cardinality({k \in 2..Len(rows) : HasRawContent(rows[k])})
        /\ Len(rows) <= 1 => result = <<>>
        /\ csvText = <<>> => result = <<>>

\* A row of empty cells between the header and a row that became a Record.
C6_Witness ==
    /\ Done
    /\ Len(rows) = 3
    /\ ~HasRawContent(rows[2])
    /\ HasRawContent(rows[3])
    /\ Len(result) = 1

\* C8: inside quotes and at the end of the text the scanner always has a step to
\* take, its index never passes the end of the text by more than one, and a text
\* that ends inside quotes decodes as the text followed by a closing quote.
C8_OpenQuoteClosedAtEnd ==
    /\ (pc = "scan" /\ (inQuotes \/ i > Len(csvText))) => ENABLED NextCSV
    /\ pc = "scan" => i <= Len(csvText) + 1
    /\ (Done /\ inQuotes) => result = parseCSV(csvText \o <<QUOTE>>)

\* A text that ends inside a quoted field of a data row, which became a Record.
C8_Witness ==
    /\ Done
    /\ inQuotes
    /\ atQuote.rows # <<>>
    /\ Len(result) = 1

AllValuesEmpty(r) == \A k \in DOMAIN r : r[k] = <<>>

\* C10 as claimed: every Record has a value that is not the empty string.
C10_RecordHasNonEmptyValue ==
    Done => \A n \in 1..Len(result) : ~AllValuesEmpty(result[n])

\* C10 as amended: every Record comes from a row with a cell that is not the
\* empty string before trimming; it has a non-empty value exactly when one of
\* that row's cells, under a header that is the last with its key, is non-empty
\* after trimming.
C10_RecordFromRowWithRawContent ==
    Done =>
        /\ Len(result) = Len(DataRows)
        /\ \A n \in 1..Len(result) :
               ~AllValuesEmpty(result[n]) <=>
                   \E k \in 1..Len(Headers) :
                       /\ LastOfKey(k)
                       /\ k <= Len(DataRows[n])
                       /\ Trim(DataRows[n][k]) # <<>>

\* Two Records: one from a row of white space, all its values empty, and one with
\* a non-empty value.
C10_Witness ==
    /\ Done
    /\ Len(result) = 2
    /\ AllValuesEmpty(result[1])
    /\ ~AllValuesEmpty(result[2])


\* ---------------------------------------------------------- Page: load()

\* The values a failed fetch or body read throws: objects whose message is a
\* string, possibly empty, or is missing.
Thrown == {[message |-> "Failed to fetch"], [message |-> ""], [message |-> Undefined]}

\* The HTTP statuses for which res.ok is false.
NotOkStatus == {"404", "500"}

\* new Error(`HTTP ${res.status}`)
HttpError(status) == [message |-> "HTTP " \o status]

\* e.message ?? "Error leyendo el CSV"
ErrorMessage(e) == IF e.message = Undefined THEN "Error leyendo el CSV" ELSE e.message

PageSt == [data |-> data, loading |-> loading, error |-> error]

\* try { setLoading(true); setError(null); ... fetch(...)
OnStart(st) == [st EXCEPT !.loading = TRUE, !.error = Null]

\* Mutant of OnFailure: setLoading(false) runs at the end of try, not in finally.
OnFailureStillLoading(st, e) == [st EXCEPT !.error = ErrorMessage(e)]

\* catch (e) { setError(...) } finally { setLoading(false) }
OnFailure(st, e) == [st EXCEPT !.error = ErrorMessage(e), !.loading = FALSE]

\* const parsed = parseCSV(text); setData(parsed); finally { setLoading(false) }
OnText(st, text) == [st EXCEPT !.data = parseCSV(text), !.loading = FALSE]

SetPage(st) ==
    /\ data' = st.data
    /\ loading' = st.loading
    /\ error' = st.error

\* The effect runs load() once after mount, up to the await of fetch.
LoadStart ==
    /\ loadPc = "mounted"
    /\ SetPage(OnStart(PageSt))
    /\ dataBefore' = data
    /\ loadPc' = "fetching"
    /\ UNCHANGED <<csvVars, filterVars>>

\* fetch rejects.
FetchRejects ==
    /\ loadPc = "fetching"
    /\ \E e \in Thrown : SetPage(OnFailure(PageSt, e))
    /\ loadPc' = "failed"
    /\ UNCHANGED <<csvVars, dataBefore, filterVars>>

\* fetch resolves with !res.ok.
FetchNotOk ==
    /\ loadPc = "fetching"
    /\ \E status \in NotOkStatus : SetPage(OnFailure(PageSt, HttpError(status)))
    /\ loadPc' = "failed"
    /\ UNCHANGED <<csvVars, dataBefore, filterVars>>

\* fetch resolves with res.ok, up to the await of res.text().
FetchOk ==
    /\ loadPc = "fetching"
    /\ loadPc' = "reading"
    /\ UNCHANGED <<csvVars, data, loading, error, dataBefore, filterVars>>

\* res.text() rejects.
TextRejects ==
    /\ loadPc = "reading"
    /\ \E e \in Thrown : SetPage(OnFailure(PageSt, e))
    /\ loadPc' = "failed"
    /\ UNCHANGED <<csvVars, dataBefore, filterVars>>

\* res.text() resolves.
TextResolves ==
    /\ loadPc = "reading"
    /\ \E text \in Texts :
           /\ csvText' = text
           /\ SetPage(OnText(PageSt, text))
    /\ loadPc' = "loaded"
    /\ UNCHANGED <<i, rows, row, cell, inQuotes, pc, result, last, atQuote>>
    /\ UNCHANGED <<dataBefore, filterVars>>

InitLoad ==
    /\ csvText = <<>>
    /\ ScannerIdle
    /\ PageMounted

NextLoad ==
    \/ LoadStart
    \/ FetchRejects
    \/ FetchNotOk
    \/ FetchOk
    \/ TextRejects
    \/ TextResolves

SpecLoad == InitLoad /\ [][NextLoad]_vars

\* --------------------------------------------------------- Page: filtered

\* Milliseconds in a day and in a minute, and 23:59:59.999 as milliseconds into
\* the day (setHours(23, 59, 59, 999)).
MsPerDay == 86400000

MsPerMinute == 60000

EndOfDayMs == 86399999

\* A Date | null value: null, or a Date with its time value in milliseconds
\* since the epoch; nan marks an invalid Date, whose time value is Not-a-Number.
DateAt(time) == [null |-> FALSE, nan |-> FALSE, time |-> time]

InvalidDate == [null |-> FALSE, nan |-> TRUE, time |-> 0]

NullDate == [null |-> TRUE, nan |-> FALSE, time |-> 0]

\* new Date(value): a date-only string is UTC midnight, a date-time string
\* without offset is local time, anything else is an invalid Date.
NewDate(value, zone) ==
    CASE value.kind = "date" -> DateAt(value.day * MsPerDay)
      [] value.kind = "local" -> DateAt(value.day * MsPerDay + value.ms - zone * MsPerMinute)
      [] OTHER -> InvalidDate

\* if (!value) return null; ... if (isNaN(d.getTime())) return null; return d
parseDate(value, zone) ==
    IF value.kind \in {"undefined", "empty"} THEN NullDate
    ELSE IF NewDate(value, zone).nan THEN NullDate
    ELSE NewDate(value, zone)

\* a || b for two strings: undefined and "" are falsy.
MissingTitle == <<"undefined">>

OrTitle(a, b) == IF a # MissingTitle /\ a # <<>> THEN a ELSE b

\* a || b for two Date | null values: every Date is truthy.
OrDate(a, b) == IF ~a.null THEN a ELSE b

\* row["Evento/titulo"] || row["Evento"] || row["titulo"]
title(r) == OrTitle(OrTitle(r["Evento/titulo"], r["Evento"]), r["titulo"])

\* parseDate(row["Timestamp Inicio"]) || parseDate(row["Timestamp inicio"]) || ...
tStart(r, zone) ==
    OrDate(OrDate(parseDate(r["Timestamp Inicio"], zone), parseDate(r["Timestamp inicio"], zone)),
           parseDate(r["Inicio"], zone))

\* String.prototype.toLowerCase
LowerChar(c) == CASE c = "A" -> "a" [] c = "B" -> "b" [] OTHER -> c

ToLowerCase(str) == [k \in 1..Len(str) |-> LowerChar(str[k])]

\* String.prototype.includes
Includes(str, part) ==
    \E k \in 0..(Len(str) - Len(part)) : SubSeq(str, k + 1, k + Len(part)) = part

\* query ? (title ?? "").toLowerCase().includes(query.toLowerCase()) : true
matchesText(r, q) ==
    IF q # <<>>
    THEN Includes(ToLowerCase(IF title(r) = MissingTitle THEN <<>> ELSE title(r)), ToLowerCase(q))
    ELSE TRUE

\* startDate ? new Date(startDate) : null
BoundOf(dateStr, zone) == IF dateStr.kind = "empty" THEN NullDate ELSE NewDate(dateStr, zone)

\* const endOfDay = new Date(e); endOfDay.setHours(23, 59, 59, 999): the end of
\* the local calendar day that the instant e falls in.
endOfDay(e, zone) ==
    LET localDay == (e.time + zone * MsPerMinute) \div MsPerDay
    IN  DateAt(localDay * MsPerDay + EndOfDayMs - zone * MsPerMinute)

\* a < b and a > b for two valid Dates.
Before(a, b) == a.time < b.time

After(a, b) == a.time > b.time

\* Mutant of inRange: a record at the lower bound itself is rejected.
InRangeStrictlyAfter(t, s, e, zone) ==
    IF s.null /\ e.null THEN TRUE
    ELSE IF t.null THEN FALSE
    ELSE IF ~s.null /\ ~After(t, s) THEN FALSE
    ELSE IF ~e.null /\ After(t, endOfDay(e, zone)) THEN FALSE
    ELSE TRUE

\* const inRange = (() => { ... })()
inRange(t, s, e, zone) ==
    IF s.null /\ e.null THEN TRUE
    ELSE IF t.null THEN FALSE
    ELSE IF ~s.null /\ Before(t, s) THEN FALSE
    ELSE IF ~e.null /\ After(t, endOfDay(e, zone)) THEN FALSE
    ELSE TRUE

\* The callback of data.filter: matchesText && inRange
Retains(r, start, end, q, zone) ==
    /\ matchesText(r, q)
    /\ inRange(tStart(r, zone), BoundOf(start, zone), BoundOf(end, zone), zone)

\* The useMemo body.
Filter(records, start, end, q, zone) ==
    LET Test(r) == Retains(r, start, end, q, zone)
    IN  SelectSeq(records, Test)

\* ------------------------------------------------ Page: the filter's inputs

\* Time zones: UTC-5, UTC and UTC+1.
TimeZones == {-300, 0, 60}

DateInputs == {NoDate} \cup {DateStr("date", d, 0) : d \in 1..MaxDay}

Queries == {<<>>, <<"a", "b">>, <<"B">>}

MissingDate == DateStr("undefined", 0, 0)

NotADate == DateStr("text", 0, 0)

Rec(t1, t2, t3, d1, d2, d3) ==
    [k \in {"Evento/titulo", "Evento", "titulo", "Timestamp Inicio", "Timestamp inicio", "Inicio"} |->
        CASE k = "Evento/titulo" -> t1
          [] k = "Evento" -> t2
          [] k = "titulo" -> t3
          [] k = "Timestamp Inicio" -> d1
          [] k = "Timestamp inicio" -> d2
          [] OTHER -> d3]

\* Records that differ in their date columns: none, a local date-time at 23:59:00
\* on each day a bound can name and at 00:01:00 on the day after it, a date-only
\* value, and values that do not parse before one that does or with none that does.
DateRecords ==
    {Rec(<<"a", "B">>, MissingTitle, MissingTitle, d1, MissingDate, MissingDate) :
        d1 \in {MissingDate, DateStr("date", 1, 0)}
               \cup {DateStr("local", d, 86340000) : d \in 1..MaxDay}
               \cup {DateStr("local", d + 1, 60000) : d \in 1..MaxDay}}
    \cup {Rec(<<"a", "B">>, MissingTitle, MissingTitle, NotADate, MissingDate, DateStr("local", 1, 86340000)),
          Rec(<<"a", "B">>, MissingTitle, MissingTitle, NoDate, NotADate, MissingDate)}

\* Records that differ in their title columns.
TitleRecords ==
    {Rec(MissingTitle, MissingTitle, MissingTitle, DateStr("local", 1, 86340000), MissingDate, MissingDate),
     Rec(<<>>, <<"A", "b">>, MissingTitle, DateStr("local", 1, 86340000), MissingDate, MissingDate),
     Rec(MissingTitle, MissingTitle, <<"b">>, DateStr("local", 1, 86340000), MissingDate, MissingDate)}

DataSets == SeqsUpTo(DateRecords \cup TitleRecords, MaxRows)

\* -------------------------------------------------- Page: filter actions

\* The page after load() succeeded with some data set, no filter set.
InitFilter ==
    /\ csvText = <<>>
    /\ ScannerIdle
    /\ data \in DataSets
    /\ loading = FALSE
    /\ error = Null
    /\ loadPc = "loaded"
    /\ dataBefore = <<>>
    /\ startDate = NoDate
    /\ endDate = NoDate
    /\ query = <<>>
    /\ tz \in TimeZones
    /\ filtered = Filter(data, startDate, endDate, query, tz)

\* onChange of the "Desde" input, and the memo recomputed.
SetStartDate ==
    /\ \E v \in DateInputs :
           /\ startDate' = v
           /\ filtered' = Filter(data, v, endDate, query, tz)
    /\ UNCHANGED <<csvVars, loadVars, endDate, query, tz>>

\* onChange of the "Hasta" input, and the memo recomputed.
SetEndDate ==
    /\ \E v \in DateInputs :
           /\ endDate' = v
           /\ filtered' = Filter(data, startDate, v, query, tz)
    /\ UNCHANGED <<csvVars, loadVars, startDate, query, tz>>

\* onChange of the search input, and the memo recomputed.
SetQuery ==
    /\ \E v \in Queries :
           /\ query' = v
           /\ filtered' = Filter(data, startDate, endDate, v, tz)
    /\ UNCHANGED <<csvVars, loadVars, startDate, endDate, tz>>

NextFilter ==
    \/ SetStartDate
    \/ SetEndDate
    \/ SetQuery

SpecFilter == InitFilter /\ [][NextFilter]_vars

Filtered(r) == \E n \in 1..Len(filtered) : filtered[n] = r

\* The memo is the filter of the current state.
FilteredIsMemo == filtered = Filter(data, startDate, endDate, query, tz)


\* ----------------------------------------------------------- Page: claims

\* The candidate date fields of a record, in the order they are tried.
Candidates(r) == <<r["Timestamp Inicio"], r["Timestamp inicio"], r["Inicio"]>>

ParsesAsDate(v) == v.kind \in {"date", "local"}

\* Some candidate field parses as a date.
Resolvable(r) == \E k \in 1..3 : ParsesAsDate(Candidates(r)[k])

\* The time value of the first candidate field that parses as a date.
ResolvedTime(r) ==
    LET k == CHOOSE c \in 1..3 :
                 /\ ParsesAsDate(Candidates(r)[c])
                 /\ \A j \in 1..(c - 1) : ~ParsesAsDate(Candidates(r)[j])
    IN  NewDate(Candidates(r)[k], tz).time

\* C2: with only an upper bound D set, a record that starts at 23:59:00 on day D
\* and passes the text condition is retained, and a record that starts at 00:01
\* on the day after D is rejected, in every time zone.
C2_UpperBoundCoversItsDay ==
    (startDate = NoDate /\ endDate # NoDate) =>
        \A n \in 1..Len(data) :
            /\ ( /\ data[n]["Timestamp Inicio"] = DateStr("local", endDate.day, 86340000)
                 /\ matchesText(data[n], query) ) => Filtered(data[n])
            /\ data[n]["Timestamp Inicio"] = DateStr("local", endDate.day + 1, 60000)
                   => ~Filtered(data[n])

\* C7: with only a lower bound set, the records retained are those that pass the
\* text condition and have a resolvable start instant not before the bound; with
\* no bound set, they are those that pass the text condition.
C7_LowerBoundOnly ==
    /\ (startDate # NoDate /\ endDate = NoDate) =>
           \A n \in 1..Len(data) :
               Filtered(data[n]) <=>
                   /\ matchesText(data[n], query)
                   /\ Resolvable(data[n])
                   /\ ResolvedTime(data[n]) >= NewDate(startDate, tz).time
    /\ (startDate = NoDate /\ endDate = NoDate) =>
           \A n \in 1..Len(data) : Filtered(data[n]) <=> matchesText(data[n], query)

\* Only a lower bound is set; of two records, the one with no resolvable start
\* instant is rejected and the one that starts at the bound itself is retained.
C7_Witness ==
    /\ startDate # NoDate
    /\ endDate = NoDate
    /\ Len(data) = 2
    /\ ~Resolvable(data[1])
    /\ Resolvable(data[2])
    /\ ResolvedTime(data[2]) = NewDate(startDate, tz).time
    /\ filtered = <<data[2]>>

\* C9: after a failed load error is not null, data is what it was when the load
\* started and loading is false; after a successful load error is null, data is
\* the parsed text and loading is false.
C9_LoadOutcome ==
    /\ loadPc = "failed" =>
           /\ error # Null
           /\ data = dataBefore
           /\ loading = FALSE
    /\ loadPc = "loaded" =>
           /\ error = Null
           /\ data = parseCSV(csvText)
           /\ loading = FALSE

\* A load that failed on a non-success HTTP status.
C9_Witness ==
    /\ loadPc = "failed"
    /\ error = "HTTP 404"
    /\ loading = FALSE

====
